---- MODULE Spec2Model ----
(***************************************************************************)
(* DCF77 emulator (src/src/main.cpp): the telegram composer                *)
(* (loop / readAndDecodeTime / calculateArray / bin2Bcd) and the pulse     *)
(* emitter (dcfOut, a Ticker callback every 100 ms) sharing pulseArray and *)
(* dcfOutputOn.                                                            *)
(*                                                                         *)
(* Time advances in steps of one Ticker period (100 ms).  The Ticker       *)
(* callback runs when the main thread yields (inside delay() and between   *)
(* two loop() iterations); a runnable main thread takes its step before    *)
(* the next callback (variable turn).                                      *)
(***************************************************************************)
EXTENDS Integers, Sequences, FiniteSets, TLC

(* ---------------- program constants ---------------- *)
MaxPulseNumber == 183
FirstMinutePulseBegin == 2
SecondMinutePulseBegin == 62
ThirdMinutePulseBegin == 122
checkInterval == 60000
TickerPeriodMs == 100
SkipPenaltyMs == 30000
TransmitDelayMs == 150000
LastSafeSecond == 56
BeginSecond == 58
\* pulse codes stored in pulseArray (main.cpp:102)
None == 0
Short == 1
Long == 2

(* ---------------- bounds of the model ---------------- *)
\* number of Ticker periods after boot that are explored
MaxTicks == 6500

\* second-of-minute of the wall clock when setup() finishes
BootSeconds == {0, 1, 28, 29, 55, 56, 57, 58, 59}
\* configured values of timeCorrectionOffset (main.cpp:73, loaded at :190)
Offsets == {0, -2}

VARIABLES
  millis,                \* millis(): ms since boot (unsigned long)
  lastCheck,             \* main.cpp:80
  wall,                  \* the local wall clock time() / localtime() read, a struct tm
  wallDs,                \* tenths of a second into wall.tm_sec
  timeCorrectionOffset,  \* main.cpp:73
  pc,                    \* main thread: "loop", "align" (delay 530), "body" (delay 538)
  delayLeft,             \* ms left of the delay() the main thread is in
  turn,                  \* "main": the main thread is runnable; "timer": it has yielded
  pulseArray,            \* main.cpp:103
  pulseCount,            \* main.cpp:105
  dcfOutputOn,           \* main.cpp:106
  partialpulseCount,     \* main.cpp:107
  pin,                   \* level of DCF_OUT_PIN
  snap,                  \* history: <<tm>> read by the latest composing call, or << >>
  txSnap,                \* history: snap when dcfOutputOn last went from 0 to 1
  txTicks,               \* history: dcfOut ticks since dcfOutputOn last went from 0 to 1
  skipped                \* history: the latest readAndDecodeTime call returned early

vars == <<millis, lastCheck, wall, wallDs, timeCorrectionOffset, pc, delayLeft, turn,
          pulseArray, pulseCount, dcfOutputOn, partialpulseCount, pin,
          snap, txSnap, txTicks, skipped>>

emitter == <<pulseCount, dcfOutputOn, partialpulseCount, pin>>

(* ---------------- unsigned long arithmetic ---------------- *)
\* 2^32 ms counted in units of 4 ms (every time of the model is a multiple of 4 ms;
\* 2^32 itself exceeds the integers of TLC)
ULongUnits == 2^30

\* (a - b) as unsigned long, in units of 4 ms
ULongDiff(a, b) == ((a \div 4) - (b \div 4)) % ULongUnits

\* (a + b) as unsigned long, in ms
ULongAdd(a, b) == (((a \div 4) + (b \div 4)) % ULongUnits) * 4

(* ---------------- struct tm and mktime ---------------- *)
IsLeap(y) == (y % 4 = 0 /\ y % 100 # 0) \/ (y % 400 = 0)

\* mon is tm_mon (0 = January), y the calendar year
DaysInMonth(mon, y) ==
  CASE mon = 1 -> IF IsLeap(y) THEN 29 ELSE 28
    [] mon \in {3, 5, 8, 10} -> 30
    [] OTHER -> 31

RECURSIVE NormDate(_)
NormDate(tm) ==
  IF tm.tm_mon > 11 THEN
    NormDate([tm EXCEPT !.tm_mon = @ - 12, !.tm_year = @ + 1])
  ELSE IF tm.tm_mon < 0 THEN
    NormDate([tm EXCEPT !.tm_mon = @ + 12, !.tm_year = @ - 1])
  ELSE IF tm.tm_mday > DaysInMonth(tm.tm_mon, tm.tm_year + 1900) THEN
    NormDate([tm EXCEPT !.tm_mday = @ - DaysInMonth(tm.tm_mon, tm.tm_year + 1900),
                        !.tm_mon = @ + 1])
  ELSE IF tm.tm_mday < 1 THEN
    LET p == IF tm.tm_mon = 0 THEN [mon |-> 11, year |-> tm.tm_year - 1]
                              ELSE [mon |-> tm.tm_mon - 1, year |-> tm.tm_year]
    IN NormDate([tm EXCEPT !.tm_mday = @ + DaysInMonth(p.mon, p.year + 1900),
                           !.tm_mon = p.mon, !.tm_year = p.year])
  ELSE tm

\* mktime(): brings the fields of a struct tm back into range, carrying
\* seconds -> minutes -> hours -> days -> months -> years (tm_isdst kept:
\* no daylight-saving switch falls inside the modelled times)
mktime(tm) ==
  LET m == tm.tm_min + (tm.tm_sec \div 60)
      h == tm.tm_hour + (m \div 60)
      d == h \div 24
  IN NormDate([tm EXCEPT !.tm_sec = tm.tm_sec % 60,
                         !.tm_min = m % 60,
                         !.tm_hour = h % 24,
                         !.tm_mday = @ + d,
                         !.tm_wday = (@ + d) % 7])

(* ---------------- bin2Bcd, calculateArray ---------------- *)
\* bin2Bcd with the tens digit shifted by 3 bits instead of 4
bin2Bcd_Shift3(dato) ==
  IF dato < 10 THEN dato
  ELSE ((dato \div 10) * 8) + (dato % 10)

bin2Bcd(dato) ==
  IF dato < 10 THEN dato
  ELSE ((dato \div 10) * 16) + (dato % 10)

\* (TmpIn >> k) & 1 of a two's complement int
Bit(TmpIn, k) == (TmpIn \div (2^k)) % 2

\* for (n = first; n < last; n++) { Tmp = TmpIn & 1; pulseArray[n+off] = Tmp+1; TmpIn >>= 1; }
WriteBits(arr, ArrayOffset, first, last, TmpIn) ==
  [i \in DOMAIN arr |->
     IF (i - ArrayOffset) \in first..(last - 1)
     THEN Bit(TmpIn, i - ArrayOffset - first) + 1
     ELSE arr[i]]

\* ParityCount added by the same loop
RECURSIVE BitCount(_, _)
BitCount(TmpIn, width) ==
  IF width = 0 THEN 0 ELSE Bit(TmpIn, width - 1) + BitCount(TmpIn, width - 1)

\* the parity test inverted
ParityPulse_Odd(ParityCount) == IF ParityCount % 2 = 0 THEN Long ELSE Short

\* if ((ParityCount & 1) == 0) 1 else 2
ParityPulse(ParityCount) == IF ParityCount % 2 = 0 THEN Short ELSE Long

\* the first loop stopping before the two daylight-saving slots
ZeroBits_First17(arr, ArrayOffset) ==
  [i \in DOMAIN arr |-> IF (i - ArrayOffset) \in 0..16 THEN 1 ELSE arr[i]]

\* for (n = 0; n < 20; n++) pulseArray[n + ArrayOffset] = 1;
ZeroBits(arr, ArrayOffset) ==
  [i \in DOMAIN arr |-> IF (i - ArrayOffset) \in 0..19 THEN 1 ELSE arr[i]]

\* the daylight-saving test without its else branch
DstBits_NoElse(arr, ArrayOffset, isdst) ==
  IF isdst = 1 THEN [arr EXCEPT ![17 + ArrayOffset] = 2] ELSE arr

\* if (timeinfo->tm_isdst == 1) slot 17 = 2 else slot 18 = 2
DstBits(arr, ArrayOffset, isdst) ==
  IF isdst = 1 THEN [arr EXCEPT ![17 + ArrayOffset] = 2]
               ELSE [arr EXCEPT ![18 + ArrayOffset] = 2]

\* the argument of bin2Bcd for the year field
YearArg(timeinfo) == timeinfo.tm_year - 2000

calculateArray(arr, ArrayOffset, timeinfo) ==
  LET a0 == ZeroBits(arr, ArrayOffset)
      a1 == DstBits(a0, ArrayOffset, timeinfo.tm_isdst)
      a2 == [a1 EXCEPT ![20 + ArrayOffset] = 2]
      minB == bin2Bcd(timeinfo.tm_min)
      a3 == WriteBits(a2, ArrayOffset, 21, 28, minB)
      a4 == [a3 EXCEPT ![28 + ArrayOffset] = ParityPulse(BitCount(minB, 7))]
      hourB == bin2Bcd(timeinfo.tm_hour)
      a5 == WriteBits(a4, ArrayOffset, 29, 35, hourB)
      a6 == [a5 EXCEPT ![35 + ArrayOffset] = ParityPulse(BitCount(hourB, 6))]
      dayB == bin2Bcd(timeinfo.tm_mday)
      a7 == WriteBits(a6, ArrayOffset, 36, 42, dayB)
      wdayB == bin2Bcd(timeinfo.tm_wday)
      a8 == WriteBits(a7, ArrayOffset, 42, 45, wdayB)
      monB == bin2Bcd(timeinfo.tm_mon)
      a9 == WriteBits(a8, ArrayOffset, 45, 50, monB)
      yearB == bin2Bcd(YearArg(timeinfo))
      a10 == WriteBits(a9, ArrayOffset, 50, 58, yearB)
      dateParity == BitCount(dayB, 6) + BitCount(wdayB, 3) + BitCount(monB, 5)
                    + BitCount(yearB, 8)
      a11 == [a10 EXCEPT ![58 + ArrayOffset] = ParityPulse(dateParity)]
  IN [a11 EXCEPT ![59 + ArrayOffset] = 0]

(* ---------------- readAndDecodeTime ---------------- *)
\* time(&now); localtime(&now); tm_sec += timeCorrectionOffset; mktime()
ReadTime == mktime([wall EXCEPT !.tm_sec = @ + timeCorrectionOffset])

\* the skip test one second later
TooLate_After57(timeinfo) == timeinfo.tm_sec > LastSafeSecond + 1

\* if (timeinfo->tm_sec > 56)
TooLate(timeinfo) == timeinfo.tm_sec > LastSafeSecond

\* the minute step without the mktime call that renormalises the fields
PlusMinute_NoMktime(timeinfo) == [timeinfo EXCEPT !.tm_min = @ + 1]

\* timeinfo->tm_min += 1; mktime(timeinfo);
PlusMinute(timeinfo) == mktime([timeinfo EXCEPT !.tm_min = @ + 1])

\* a composition that leaves out the third calculateArray call
ComposeFrames_TwoFrames(arr, timeinfo) ==
  LET t2 == mktime([timeinfo EXCEPT !.tm_min = @ + 1])
      b1 == calculateArray(arr, FirstMinutePulseBegin, timeinfo)
  IN calculateArray(b1, SecondMinutePulseBegin, t2)

\* the three calculateArray calls of one readAndDecodeTime
ComposeFrames(arr, timeinfo) ==
  LET t2 == PlusMinute(timeinfo)
      t3 == PlusMinute(t2)
      b1 == calculateArray(arr, FirstMinutePulseBegin, timeinfo)
      b2 == calculateArray(b1, SecondMinutePulseBegin, t2)
  IN calculateArray(b2, ThirdMinutePulseBegin, t3)

\* int SkipSeconds = 58 - timeinfo->tm_sec, read after the two minute steps
SkipSeconds(timeinfo) == BeginSecond - PlusMinute(PlusMinute(timeinfo)).tm_sec

(* ---------------- loop ---------------- *)
\* (millis() - lastCheck) > checkInterval, on unsigned long
CheckDue(ms, last) == ULongDiff(ms, last) > (checkInterval \div 4)

\* the main thread has something to run at the given time
MainReady(ms, last, p, left) ==
  \/ p = "loop" /\ CheckDue(ms, last)
  \/ p \in {"align", "body"} /\ left = 0

(* ---------------- dcfOut ---------------- *)
\* case 1 ending every pulse, Long ones too
PinAfter_LongEndsEarly(sub, code, level) ==
  CASE sub = 0 /\ code # 0 -> 0
    [] sub = 1 /\ code # 0 -> 1
    [] sub = 2 -> 1
    [] OTHER -> level

\* the digitalWrite of switch (partialpulseCount++)
PinAfter(sub, code, level) ==
  CASE sub = 0 /\ code # 0 -> 0
    [] sub = 1 /\ code = 1 -> 1
    [] sub = 2 -> 1
    [] OTHER -> level

\* the end test one slot early
LastPulse_OneEarly(count) == count = MaxPulseNumber - 2

\* the end test one slot late
LastPulse_OneLate(count) == count = MaxPulseNumber

\* case 9: the slot just sent was the last one
LastPulse(count) == count = MaxPulseNumber - 1

\* dcfOut without the test of dcfOutputOn
dcfOut_NoGuard ==
  /\ pin' = PinAfter(partialpulseCount, pulseArray[pulseCount], pin)
  /\ partialpulseCount' = IF partialpulseCount = 9 THEN 0 ELSE partialpulseCount + 1
  /\ pulseCount' = IF partialpulseCount = 9
                   THEN (IF LastPulse(pulseCount) THEN 0 ELSE pulseCount + 1)
                   ELSE pulseCount
  /\ dcfOutputOn' = IF partialpulseCount = 9 /\ LastPulse(pulseCount) THEN 0 ELSE dcfOutputOn

dcfOut ==
  IF dcfOutputOn = 1 THEN
    /\ pin' = PinAfter(partialpulseCount, pulseArray[pulseCount], pin)
    /\ partialpulseCount' = IF partialpulseCount = 9 THEN 0 ELSE partialpulseCount + 1
    /\ pulseCount' = IF partialpulseCount = 9
                     THEN (IF LastPulse(pulseCount) THEN 0 ELSE pulseCount + 1)
                     ELSE pulseCount
    /\ dcfOutputOn' = IF partialpulseCount = 9 /\ LastPulse(pulseCount) THEN 0 ELSE 1
  ELSE
    UNCHANGED emitter

(* ---------------- initial state: after setup() ---------------- *)
\* 2024-12-31 23:55, a Tuesday, standard time
BootTime(sec) ==
  [tm_sec |-> sec, tm_min |-> 55, tm_hour |-> 23, tm_mday |-> 31, tm_mon |-> 11,
   tm_year |-> 124, tm_wday |-> 2, tm_isdst |-> 0]

\* pulseArray is a zeroed global; setupDcf writes slots 0, 1 and 182
setupDcf ==
  [i \in 0..(MaxPulseNumber - 1) |->
     IF i = 0 \/ i = MaxPulseNumber - 1 THEN 1 ELSE 0]

Init ==
  /\ millis = 0
  /\ lastCheck = 0
  /\ \E s \in BootSeconds : wall = BootTime(s)
  /\ wallDs = 0
  /\ timeCorrectionOffset \in Offsets
  /\ pc = "loop"
  /\ delayLeft = 0
  /\ turn = "timer"
  /\ pulseArray = setupDcf
  /\ pulseCount = 0
  /\ dcfOutputOn = 0
  /\ partialpulseCount = 0
  /\ pin = 0
  /\ snap = << >>
  /\ txSnap = << >>
  /\ txTicks = 0
  /\ skipped = FALSE

(* ---------------- actions ---------------- *)
\* one Ticker period passes while the main thread waits; dcfOut runs
Tick ==
  /\ turn = "timer"
  /\ millis < MaxTicks * TickerPeriodMs
  /\ millis' = ULongAdd(millis, TickerPeriodMs)
  /\ wallDs' = (wallDs + 1) % 10
  /\ wall' = IF wallDs = 9 THEN mktime([wall EXCEPT !.tm_sec = @ + 1]) ELSE wall
  /\ delayLeft' = IF delayLeft > TickerPeriodMs THEN delayLeft - TickerPeriodMs ELSE 0
  /\ dcfOut
  /\ txTicks' = IF dcfOutputOn = 1 THEN txTicks + 1 ELSE txTicks
  /\ turn' = IF MainReady(millis', lastCheck, pc, delayLeft') THEN "main" ELSE "timer"
  /\ UNCHANGED <<lastCheck, timeCorrectionOffset, pc, pulseArray, snap, txSnap, skipped>>

\* loop() calls readAndDecodeTime, which returns early (main.cpp:503-510)
LoopSkip ==
  /\ turn = "main"
  /\ pc = "loop"
  /\ CheckDue(millis, lastCheck)
  /\ TooLate(ReadTime)
  /\ lastCheck' = ULongAdd(millis, SkipPenaltyMs)
  /\ skipped' = TRUE
  /\ turn' = "timer"
  /\ UNCHANGED <<millis, wall, wallDs, timeCorrectionOffset, pc, delayLeft,
                 pulseArray, emitter, snap, txSnap, txTicks>>

\* loop() calls readAndDecodeTime, which builds the three frames and
\* enters delay(SkipSeconds * 1000) (main.cpp:512-530)
LoopCompose ==
  /\ turn = "main"
  /\ pc = "loop"
  /\ CheckDue(millis, lastCheck)
  /\ ~TooLate(ReadTime)
  /\ lastCheck' = millis
  /\ pulseArray' = ComposeFrames(pulseArray, ReadTime)
  /\ snap' = <<ReadTime>>
  /\ skipped' = FALSE
  /\ delayLeft' = SkipSeconds(ReadTime) * 1000
  /\ pc' = "align"
  /\ turn' = "timer"
  /\ UNCHANGED <<millis, wall, wallDs, timeCorrectionOffset, emitter, txSnap, txTicks>>

\* the alignment delay is over: dcfOutputOn = 1; delay(150000) (main.cpp:533-538)
AlignDone ==
  /\ turn = "main"
  /\ pc = "align"
  /\ delayLeft = 0
  /\ dcfOutputOn' = 1
  /\ txSnap' = IF dcfOutputOn = 0 THEN snap ELSE txSnap
  /\ txTicks' = IF dcfOutputOn = 0 THEN 0 ELSE txTicks
  /\ delayLeft' = TransmitDelayMs
  /\ pc' = "body"
  /\ turn' = "timer"
  /\ UNCHANGED <<millis, lastCheck, wall, wallDs, timeCorrectionOffset, pulseArray,
                 pulseCount, partialpulseCount, pin, snap, skipped>>

\* delay(150000) is over: readAndDecodeTime returns to loop()
BodyDone ==
  /\ turn = "main"
  /\ pc = "body"
  /\ delayLeft = 0
  /\ pc' = "loop"
  /\ turn' = IF CheckDue(millis, lastCheck) THEN "main" ELSE "timer"
  /\ UNCHANGED <<millis, lastCheck, wall, wallDs, timeCorrectionOffset, delayLeft,
                 pulseArray, emitter, snap, txSnap, txTicks, skipped>>

Next == Tick \/ LoopSkip \/ LoopCompose \/ AlignDone \/ BodyDone

Spec == Init /\ [][Next]_vars

(* ---------------- composing from any calendar time ---------------- *)
\* calendar dates the composer is run on: <<tm_year, tm_mon, tm_mday, tm_wday, tm_isdst>>
\* every day of January 2024, and the ends of months of 28, 29, 30 and 31 days
\* (none at a daylight-saving switch of the configured time zone, main.cpp:72)
FrameDates ==
  {<<124, 0, d, d % 7, 0>> : d \in 1..31}
    \cup {<<124, 1, 28, 3, 0>>, <<124, 1, 29, 4, 0>>, <<125, 1, 28, 5, 0>>,
          <<124, 3, 30, 2, 1>>, <<124, 6, 31, 3, 1>>, <<124, 11, 31, 2, 0>>}

\* seconds of the minute the composer reads at
FrameSeconds == {30, 57}

Snapshot(date, hour, min, sec) ==
  [tm_sec |-> sec, tm_min |-> min, tm_hour |-> hour, tm_mday |-> date[3],
   tm_mon |-> date[2], tm_year |-> date[1], tm_wday |-> date[4], tm_isdst |-> date[5]]

\* a buffer left by an earlier composition and the time of the next one, on the
\* two sides of a daylight-saving switch of 2024 (both Sundays): composed at
\* 01:55 CET and read again from 03:00 CEST on; composed at 02:55 CEST and read
\* again from 02:00 CET on
ReuseStarts ==
  {[buffer |-> ComposeFrames(setupDcf, Snapshot(<<124, 2, 31, 0, 0>>, 1, 55, 28)),
    now |-> Snapshot(<<124, 2, 31, 0, 1>>, 3, min, 30)] : min \in 0..59}
    \cup
  {[buffer |-> ComposeFrames(setupDcf, Snapshot(<<124, 9, 27, 0, 1>>, 2, 55, 28)),
    now |-> Snapshot(<<124, 9, 27, 0, 0>>, 2, min, 30)] : min \in 0..59}

\* loop() is about to call readAndDecodeTime: the first call, 60.1 s after boot,
\* on the buffer setupDcf left, or a call that finds the buffer of an earlier one
InitFrame ==
  /\ millis = checkInterval + TickerPeriodMs
  /\ lastCheck = 0
  /\ \/ /\ pulseArray = setupDcf
        /\ \E date \in FrameDates, hour \in 0..23, min \in 0..59, sec \in FrameSeconds :
             /\ (sec > LastSafeSecond) => (min = 59 /\ hour = 23)
             /\ wall = Snapshot(date, hour, min, sec)
     \/ \E start \in ReuseStarts :
          /\ pulseArray = start.buffer
          /\ wall = start.now
  /\ wallDs = 1
  /\ timeCorrectionOffset = 0
  /\ pc = "loop"
  /\ delayLeft = 0
  /\ turn = "main"
  /\ pulseCount = 0
  /\ dcfOutputOn = 0
  /\ partialpulseCount = 0
  /\ pin = 0
  /\ snap = << >>
  /\ txSnap = << >>
  /\ txTicks = 0
  /\ skipped = FALSE

NextFrame == LoopSkip \/ LoopCompose

SpecFrame == InitFrame /\ [][NextFrame]_vars

(* ======================= claims ======================= *)
\* the frame calculateArray builds for a snapshot, as slots 0..59
Frame(timeinfo) ==
  LET blank == [i \in 0..59 |-> 0] IN calculateArray(blank, 0, timeinfo)

\* the 183 slots a composition of the snapshot leaves in a buffer set up by setupDcf
Telegram(timeinfo) ==
  [i \in 0..(MaxPulseNumber - 1) |->
     CASE i \in 2..61 -> Frame(timeinfo)[i - 2]
       [] i \in 62..121 -> Frame(PlusMinute(timeinfo))[i - 62]
       [] i \in 122..181 -> Frame(PlusMinute(PlusMinute(timeinfo)))[i - 122]
       [] i = 1 -> None
       [] OTHER -> Short]

\* ms of real time since the latest readAndDecodeTime call that did not skip
SinceCall == ULongDiff(millis, lastCheck) * 4

\* C1: the composer writes slots of pulseArray only while dcfOutputOn is clear
\* (no write between the flag being set and the emitter clearing it).
C1_WriteOnlyWhenIdle == [][pulseArray' # pulseArray => dcfOutputOn = 0]_vars

\* C2: whenever the emitter is about to read a slot of an active transmission
\* (sub-ticks 0 and 1), the slot holds the value of the composition that
\* started this transmission: no telegram mixes two compositions.
C2_OneComposition ==
  (dcfOutputOn = 1 /\ partialpulseCount \in {0, 1})
    => pulseArray[pulseCount] = Telegram(txSnap[1])[pulseCount]

\* C3: at every step that changes dcfOutputOn to 1 the buffer is complete:
\* slots 2-61, 62-121, 122-181 hold the three frames of the snapshot read by
\* the same readAndDecodeTime call, slots 0, 1, 182 hold Short, None, Short,
\* and the alignment delay of that call has run out.
C3_FlagAfterBuffer ==
  [][(dcfOutputOn = 0 /\ dcfOutputOn' = 1) =>
       /\ pc = "align" /\ delayLeft = 0
       /\ SinceCall = SkipSeconds(snap[1]) * 1000
       /\ pulseArray' = Telegram(snap[1])]_vars

C3_Witness ==
  /\ dcfOutputOn = 1 /\ pc = "body" /\ txTicks = 0
  /\ txSnap = snap /\ snap # << >>
  /\ SinceCall = 58000

\* where an active emitter stands: slot txTicks \div 10, sub-tick txTicks % 10,
\* txTicks counting the ticks since the flag went from 0 to 1; an idle one
\* stands at slot 0, sub-tick 0
C4_Position ==
  /\ dcfOutputOn = 1 =>
       /\ txTicks < 10 * MaxPulseNumber
       /\ pulseCount = txTicks \div 10
       /\ partialpulseCount = txTicks % 10
  /\ dcfOutputOn = 0 => (pulseCount = 0 /\ partialpulseCount = 0)

\* C4: once the flag is set with the emitter at slot 0, sub-tick 0, the
\* emitter walks slots 0..182 in order, ten ticks each, whatever the composer
\* does meanwhile; the flag is cleared only by the 1830th tick, which leaves
\* slotIndex = subTick = 0; and whenever the flag is clear slotIndex = subTick = 0.
C4_RunsToCompletion ==
  /\ []C4_Position
  /\ [][(dcfOutputOn = 1 /\ dcfOutputOn' = 0) =>
          /\ millis' # millis
          /\ txTicks' = 10 * MaxPulseNumber
          /\ pulseCount = MaxPulseNumber - 1 /\ partialpulseCount = 9]_vars

C4_Witness == dcfOutputOn = 0 /\ txTicks = 10 * MaxPulseNumber

\* C5: during an active transmission the line follows the code of the slot
\* being sent: after tick 0 it is low unless the code is None; after tick 1
\* it is low only for Long; after ticks 2..9 it is high.  So the line is low
\* for at most the first two ticks of a slot.
C5_PulseShape ==
  dcfOutputOn = 1 =>
    LET code == pulseArray[pulseCount] IN
      /\ partialpulseCount = 1 => pin = (IF code = None THEN 1 ELSE 0)
      /\ partialpulseCount = 2 => pin = (IF code = Long THEN 0 ELSE 1)
      /\ partialpulseCount \in 3..9 => pin = 1
      /\ (partialpulseCount = 0 /\ pulseCount > 0) => pin = 1

C5_Witness ==
  /\ dcfOutputOn = 1 /\ partialpulseCount = 2
  /\ pulseArray[pulseCount] = Long /\ pin = 0

\* C6: a readAndDecodeTime call that reads a second above 56 changes no slot,
\* does not set the flag and leaves the emitter alone; a call that reads a
\* second in 0..56 composes, and slots 0, 1, 182 are then Short, None, Short.
C6_SkipOrCompose ==
  [][(turn = "main" /\ pc = "loop" /\ CheckDue(millis, lastCheck)) =>
       IF ReadTime.tm_sec > 56
       THEN /\ UNCHANGED <<pulseArray, pulseCount, dcfOutputOn, partialpulseCount, pin>>
            /\ pc' = "loop"
       ELSE /\ pc' = "align"
            /\ snap' = <<ReadTime>>
            /\ pulseArray' = Telegram(ReadTime)
            /\ pulseArray'[0] = Short /\ pulseArray'[1] = None
            /\ pulseArray'[MaxPulseNumber - 1] = Short]_vars

C6_Witness ==
  /\ skipped /\ pc = "loop" /\ wall.tm_sec = 57
  /\ pulseArray = setupDcf /\ dcfOutputOn = 0

\* C7: after a readAndDecodeTime call that skipped, the next call comes no
\* earlier than one check interval (60000 ms) later.
C7_RetryAfterInterval ==
  [][(skipped /\ lastCheck' # lastCheck) =>
       ULongDiff(ULongAdd(millis, SkipPenaltyMs), lastCheck) * 4 >= checkInterval]_vars

\* C8: when the composer sets the flag, 58 - s seconds have passed since the
\* read at second s, the (corrected) clock is at second 58 of the minute that
\* was read, and the emitter starts that telegram at slot 0.
C8_StartsAtSecond58 ==
  [][(pc = "align" /\ pc' = "body") =>
       /\ SinceCall = (BeginSecond - snap[1].tm_sec) * 1000
       /\ ReadTime.tm_sec = BeginSecond
       /\ ReadTime.tm_min = snap[1].tm_min
       /\ pulseCount' = 0 /\ partialpulseCount' = 0]_vars

\* reading a field of a frame back: width slots from slot first of the frame at
\* ArrayOffset, LSB first, Short = 0 and Long = 1
RECURSIVE FieldBits(_, _, _, _)
FieldBits(arr, ArrayOffset, first, width) ==
  IF width = 0 THEN 0
  ELSE (arr[ArrayOffset + first] - 1) + 2 * FieldBits(arr, ArrayOffset, first + 1, width - 1)

\* packed BCD to number: units nibble low, tens nibble high
FromBcd(b) == ((b \div 16) * 10) + (b % 16)

FrameBegin(k) ==
  CASE k = 1 -> FirstMinutePulseBegin
    [] k = 2 -> SecondMinutePulseBegin
    [] OTHER -> ThirdMinutePulseBegin

MinuteOf(k) == FromBcd(FieldBits(pulseArray, FrameBegin(k), 21, 7))
HourOf(k) == FromBcd(FieldBits(pulseArray, FrameBegin(k), 29, 6))
DayOf(k) == FromBcd(FieldBits(pulseArray, FrameBegin(k), 36, 6))

C10_RoundTrip ==
  pc = "align" =>
    /\ MinuteOf(1) = snap[1].tm_min
    /\ HourOf(1) = snap[1].tm_hour
    /\ DayOf(1) = snap[1].tm_mday

C10_Witness ==
  /\ pc = "align"
  /\ snap[1].tm_min = 59 /\ snap[1].tm_hour = 23 /\ snap[1].tm_mday = 31
  /\ MinuteOf(1) = 59 /\ HourOf(1) = 23 /\ DayOf(1) = 31

WdayOf(k) == FieldBits(pulseArray, FrameBegin(k), 42, 3)
MonthOf(k) == FromBcd(FieldBits(pulseArray, FrameBegin(k), 45, 5))
YearOf(k) == FromBcd(FieldBits(pulseArray, FrameBegin(k), 50, 8))

\* number of Long slots among slots first..last of frame k
LongCount(k, first, last) ==
  Cardinality({n \in first..last : pulseArray[FrameBegin(k) + n] = Long})

\* C11: every built frame has even parity in each group: the number of Long
\* slots among 21-28, among 29-35 and among 36-58 is even.
C11_EvenParity ==
  pc = "align" =>
    \A k \in 1..3 :
      /\ LongCount(k, 21, 28) % 2 = 0
      /\ LongCount(k, 29, 35) % 2 = 0
      /\ LongCount(k, 36, 58) % 2 = 0

C11_Witness ==
  /\ pc = "align"
  /\ pulseArray[FirstMinutePulseBegin + 28] = Long
  /\ pulseArray[FirstMinutePulseBegin + 35] = Long
  /\ pulseArray[FirstMinutePulseBegin + 58] = Long
  /\ LongCount(1, 21, 27) % 2 = 1

\* C12: the weekday field (slots 42-44, LSB first) of every built frame is in
\* 1..7, a tm_wday of 0 being encoded as 7.
C12_WeekdayOneToSeven ==
  pc = "align" =>
    /\ \A k \in 1..3 : WdayOf(k) \in 1..7
    /\ WdayOf(1) = (IF snap[1].tm_wday = 0 THEN 7 ELSE snap[1].tm_wday)

\* C13: the month field (slots 45-49, LSB first, packed BCD) of a built frame
\* decodes to the calendar month 1..12 of the snapshot (tm_mon counts from 0).
C13_CalendarMonth ==
  pc = "align" =>
    /\ MonthOf(1) \in 1..12
    /\ MonthOf(1) = snap[1].tm_mon + 1

\* C14: the value given to bin2Bcd for the year field is in 0..99 and is the
\* calendar year modulo 100 (tm_year counts from 1900), and slots 50-57 decode
\* to it.
C14_YearInCentury ==
  pc = "align" =>
    /\ YearArg(snap[1]) \in 0..99
    /\ YearArg(snap[1]) = (snap[1].tm_year + 1900) % 100
    /\ YearOf(1) = (snap[1].tm_year + 1900) % 100

\* C15: in every frame of a composed telegram exactly one of slots 17 and 18
\* is Long and the other Short, slot 17 being Long iff daylight saving is
\* active, also when the buffer held frames of the other flag value before.
C15_DstBitsExclusive ==
  pc = "align" =>
    \A k \in 1..3 :
      LET s17 == pulseArray[FrameBegin(k) + 17]
          s18 == pulseArray[FrameBegin(k) + 18]
      IN IF snap[1].tm_isdst = 1 THEN s17 = Long /\ s18 = Short
                                 ELSE s17 = Short /\ s18 = Long

C15_Witness ==
  /\ pc = "align"
  /\ snap[1].tm_mon = 2 /\ snap[1].tm_mday = 31 /\ snap[1].tm_isdst = 1
  /\ pulseArray[FirstMinutePulseBegin + 17] = Long
  /\ pulseArray[FirstMinutePulseBegin + 18] = Short

\* the frame calculateArray builds over 60 slots that all hold the given code
FrameOver(code, timeinfo) ==
  LET filled == [i \in 0..59 |-> code] IN calculateArray(filled, 0, timeinfo)

\* C16: in every built frame slot 59 is None, slots 0-16 and 19 are Short and
\* slot 20 is Long; and the build writes all 60 slots: the frame is the same
\* whether the buffer held Short or Long everywhere or the frames of an
\* earlier composition.
C16_FrameFromSnapshotOnly ==
  pc = "align" =>
    /\ \A k \in 1..3 :
         /\ pulseArray[FrameBegin(k) + 59] = None
         /\ \A n \in (0..16) \cup {19} : pulseArray[FrameBegin(k) + n] = Short
         /\ pulseArray[FrameBegin(k) + 20] = Long
    /\ LET frame == FrameOver(Short, snap[1])
       IN /\ frame = FrameOver(Long, snap[1])
          /\ \A n \in 0..59 : pulseArray[FirstMinutePulseBegin + n] = frame[n]

C16_Witness ==
  /\ pc = "align"
  /\ snap[1].tm_mon = 9 /\ snap[1].tm_mday = 27 /\ snap[1].tm_isdst = 0
  /\ \A n \in 0..59 : pulseArray[FirstMinutePulseBegin + n] = Frame(snap[1])[n]

\* C17: a Ticker period that starts with the flag clear leaves the line, the
\* emitter's counters, the flag and the buffer as they were.
C17_IdleTickNoChange ==
  [][(dcfOutputOn = 0 /\ millis' # millis) =>
       UNCHANGED <<pin, pulseCount, partialpulseCount, dcfOutputOn, pulseArray>>]_vars

C17_Witness ==
  /\ dcfOutputOn = 0 /\ txTicks = 10 * MaxPulseNumber
  /\ pin = 1 /\ pc = "align" /\ turn = "timer" /\ delayLeft < 30000

\* C18: whenever readAndDecodeTime sets dcfOutputOn, the flag was clear and
\* the emitter stands at slot 0, sub-tick 0, so the telegram just composed is
\* emitted from its first slot.
C18_FlagSetWhenIdle ==
  [][(pc = "align" /\ pc' = "body") =>
       /\ dcfOutputOn = 0
       /\ pulseCount = 0 /\ partialpulseCount = 0
       /\ txSnap' = snap]_vars

\* slots calculateArray writes for a frame at the given offset
WrittenSlots(ArrayOffset) == {n + ArrayOffset : n \in 0..59}

\* C19: in every reachable state 0 <= pulseCount <= 182 and
\* 0 <= partialpulseCount <= 9; the slots calculateArray writes at offsets 2,
\* 62 and 122 lie inside the buffer and leave out slots 0, 1 and 182, which
\* keep the values setupDcf gave them.
C19_IndicesInRange ==
  /\ pulseCount \in 0..(MaxPulseNumber - 1)
  /\ partialpulseCount \in 0..9
  /\ DOMAIN pulseArray = 0..(MaxPulseNumber - 1)
  /\ \A off \in {FirstMinutePulseBegin, SecondMinutePulseBegin, ThirdMinutePulseBegin} :
       WrittenSlots(off) \subseteq (DOMAIN pulseArray) \ {0, 1, MaxPulseNumber - 1}
  /\ pulseArray[0] = setupDcf[0] /\ pulseArray[1] = setupDcf[1]
  /\ pulseArray[MaxPulseNumber - 1] = setupDcf[MaxPulseNumber - 1]

C19_Witness ==
  /\ dcfOutputOn = 1 /\ pulseCount = MaxPulseNumber - 1 /\ partialpulseCount = 9
  /\ snap # txSnap

====
